---- MODULE Spec2Model ----
(***************************************************************************)
(* DeclarativeColumnsConfig (data_designer_declarative_columns/config.py): *)
(* a pydantic model that loads column definitions from a YAML file or from *)
(* inline YAML, validates them, and forwards them to a builder.            *)
(*                                                                         *)
(* Python values are tagged records: None, PyInt, PyBool, Str (a sequence of   *)
(* characters), List (a sequence of values) and Dict (a function from keys *)
(* to values).                                                             *)
(* The YAML deserializer and the builder are external: a YAML text is      *)
(* represented by what yaml.safe_load yields for it, and the builder by    *)
(* the calls it receives and the set of calls it rejects.                  *)
(***************************************************************************)
EXTENDS Integers, Sequences, FiniteSets, TLC

VARIABLES pc, self, args, raised, ret, calls, io, regs

vars == <<pc, self, args, raised, ret, calls, io, regs>>

(* Bounds: the length of a `columns` list, and the number of calls of     *)
(* add_columns_to_builder on the one builder.                              *)
MaxCols == 2
MaxRegs == 2

-----------------------------------------------------------------------------
(* Python values. *)

None == [t |-> "None"]

Str(c) == [t |-> "str", c |-> c]

List(s) == [t |-> "list", s |-> s]

Dict(m) == [t |-> "dict", m |-> m]

PyInt(n) == [t |-> "int", n |-> n]

PyBool(b) == [t |-> "bool", b |-> b]

(* The two required keys, as the characters of their string literals. *)
KeyChars ==
  [name |-> <<"n", "a", "m", "e">>,
   column_type |-> <<"c", "o", "l", "u", "m", "n", "_", "t", "y", "p", "e">>]

(* bool(v): None, 0, False and empty containers are falsy. *)
Truthy(v) ==
  CASE v.t = "None" -> FALSE
    [] v.t = "int" -> v.n # 0
    [] v.t = "bool" -> v.b
    [] v.t = "str" -> Len(v.c) > 0
    [] v.t = "list" -> Len(v.s) > 0
    [] v.t = "dict" -> DOMAIN v.m # {}

IsSubstring(sub, s) ==
  \E i \in 1..(Len(s) - Len(sub) + 1) : SubSeq(s, i, i + Len(sub) - 1) = sub

(* `key in col` is defined on dict (key membership), list (element         *)
(* membership) and str (substring); on None it raises TypeError.           *)
InRaises(col) == col.t = "None"

In(key, col) ==
  CASE col.t = "dict" -> key \in DOMAIN col.m
    [] col.t = "list" -> \E i \in DOMAIN col.s : col.s[i] = Str(KeyChars[key])
    [] col.t = "str" -> IsSubstring(KeyChars[key], col.c)
    [] OTHER -> FALSE

(* Exceptions: the class, the message template and the value formatted     *)
(* into the message.                                                       *)
Exc(type, msg, arg) == [type |-> type, msg |-> msg, arg |-> arg]

NoExc == Exc("None", "", None)

Raised(e) == e.type # "None"

-----------------------------------------------------------------------------
(* The inputs: column elements, YAML documents, texts and the file system. *)

(* Column records that pass the required-field validation. *)
ValidRecords ==
  {Dict([name |-> Str(<<"a">>), column_type |-> Str(<<"s">>)]),
   Dict([name |-> Str(<<"b">>), column_type |-> Str(<<"l">>),
         prompt |-> Str(<<"p">>)])}

(* Mappings that lack a required key. *)
InvalidRecords ==
  {Dict([prompt |-> Str(<<"p">>)]),
   Dict([column_type |-> Str(<<"s">>)]),
   Dict([name |-> Str(<<"a">>)])}

(* Elements of `columns` that are not mappings: the sequences              *)
(* [name, column_type] and [name], the scalar text "name,column_type", and *)
(* a null element.                                                         *)
NonRecords ==
  {List(<<Str(KeyChars.name), Str(KeyChars.column_type)>>),
   List(<<Str(KeyChars.name)>>),
   Str(KeyChars.name \o <<",">> \o KeyChars.column_type),
   None}

ColumnElems == ValidRecords \cup InvalidRecords \cup NonRecords

ColumnLists == UNION {[1..n -> ColumnElems] : n \in 0..MaxCols}

ToolConfig1 == Dict([tool_alias |-> Str(<<"t">>)])

(* The values under the `columns` and `tool_configs` keys of a document. *)
ColumnsValues == {List(l) : l \in ColumnLists} \cup {None}

ToolConfigsValues == {List(<<>>), List(<<ToolConfig1>>), None}

(* What yaml.safe_load yields for a well-formed text. *)
Documents ==
  {None, Str(<<"x">>), Dict([other |-> Str(<<"x">>)])}
    \cup {List(l) : l \in ColumnLists}
    \cup {Dict([columns |-> cv]) : cv \in ColumnsValues}
    \cup {Dict([columns |-> cv, tool_configs |-> tc]) :
            cv \in ColumnsValues, tc \in ToolConfigsValues}

Text(well_formed, doc) == [t |-> "text", well_formed |-> well_formed, doc |-> doc]

Malformed == Text(FALSE, None)

Texts == {Text(TRUE, d) : d \in Documents} \cup {Malformed}

(* The file system: a path is missing, a directory, or a file with a text. *)
Paths == {"missing.yaml", "cols.yaml", "broken.yaml", "dir"}

Path(p) == [t |-> "path", p |-> p]

FileText(p) ==
  IF p = "cols.yaml"
    THEN Text(TRUE, Dict([columns |-> List(<<CHOOSE r \in ValidRecords : "prompt" \notin DOMAIN r.m>>),
                          tool_configs |-> List(<<ToolConfig1>>)]))
    ELSE Malformed

Exists(p) == p # "missing.yaml"

IsDir(p) == p = "dir"

-----------------------------------------------------------------------------
(* load_yaml, the model validator that runs once the fields are set. *)

InlineDesc == [src |-> "inline YAML", p |-> ""]

FileDesc(p) == [src |-> "file", p |-> p]

(* validate_source without the check that rejects both sources. *)
validate_source_only_neither(obj) ==
  IF obj.file.t = "None" /\ obj.yaml_content.t = "None"
    THEN Exc("ValueError", "Either 'file' or 'yaml_content' must be provided", None)
    ELSE NoExc

(* Exactly one source must be provided. *)
validate_source(obj) ==
  IF obj.file.t = "None" /\ obj.yaml_content.t = "None"
    THEN Exc("ValueError", "Either 'file' or 'yaml_content' must be provided", None)
  ELSE IF obj.file.t # "None" /\ obj.yaml_content.t # "None"
    THEN Exc("ValueError", "Cannot specify both 'file' and 'yaml_content'", None)
  ELSE NoExc

(* yaml.safe_load: a syntax error or the document. *)
safe_load(text) ==
  IF text.well_formed
    THEN [raised |-> NoExc, data |-> text.doc]
    ELSE [raised |-> Exc("YAMLError", "", None), data |-> None]

(* Load YAML from the appropriate source; counts the file lookups, the     *)
(* files opened and the texts handed to the deserializer.                  *)
read_data(obj, cnt) ==
  IF obj.file.t # "None"
    THEN LET p == obj.file.p
             looked == [cnt EXCEPT !.exists = @ + 1]
             opened == [looked EXCEPT !.opened = @ + 1]
             parsed == [opened EXCEPT !.parsed = @ + 1]
             r == safe_load(FileText(p))
         IN  IF ~Exists(p)
               THEN [raised |-> Exc("FileNotFoundError",
                                    "YAML configuration file not found", FileDesc(p)),
                     data |-> None, source_desc |-> FileDesc(p), io |-> looked]
             ELSE IF IsDir(p)
               THEN [raised |-> Exc("IsADirectoryError", "", FileDesc(p)),
                     data |-> None, source_desc |-> FileDesc(p), io |-> opened]
             ELSE IF Raised(r.raised)
               THEN [raised |-> Exc("ValueError", "Failed to parse YAML file", FileDesc(p)),
                     data |-> None, source_desc |-> FileDesc(p), io |-> parsed]
             ELSE [raised |-> NoExc, data |-> r.data,
                   source_desc |-> FileDesc(p), io |-> parsed]
    ELSE LET parsed == [cnt EXCEPT !.parsed = @ + 1]
             r == safe_load(obj.yaml_content)
         IN  IF Raised(r.raised)
               THEN [raised |-> Exc("ValueError", "Failed to parse inline YAML", InlineDesc),
                     data |-> None, source_desc |-> InlineDesc, io |-> parsed]
               ELSE [raised |-> NoExc, data |-> r.data,
                     source_desc |-> InlineDesc, io |-> parsed]

(* Extract columns (and tool_configs if present) from the YAML data. *)
extract_columns(obj, data, source_desc) ==
  IF data.t = "dict" /\ "columns" \in DOMAIN data.m
    THEN [raised |-> NoExc,
          self |-> IF "tool_configs" \in DOMAIN data.m
                     THEN [obj EXCEPT !.columns = data.m.columns,
                                      !.tool_configs = data.m.tool_configs]
                     ELSE [obj EXCEPT !.columns = data.m.columns]]
  ELSE IF data.t = "list"
    THEN [raised |-> NoExc, self |-> [obj EXCEPT !.columns = data]]
  ELSE [raised |-> Exc("ValueError", "YAML must contain a 'columns' key with a list",
                       source_desc),
        self |-> obj]

Digit(i) == <<"0", "1", "2", "3", "4", "5", "6", "7", "8", "9">>[i + 1]

IndexDesc(i) == Str(<<"i", "n", "d", "e", "x", " ", Digit(i)>>)

(* col.get(key, default); only a dict has the method. *)
Get(col, key, default) == IF key \in DOMAIN col.m THEN col.m[key] ELSE default

(* validate_column with the two checks in the other order. *)
validate_column_type_first(i, col) ==
  IF InRaises(col)
    THEN Exc("TypeError", "argument of type 'NoneType' is not iterable", None)
  ELSE IF ~In("column_type", col)
    THEN IF col.t = "dict"
           THEN Exc("ValueError", "Column '{name}' is missing required 'column_type' field",
                    Get(col, "name", IndexDesc(i)))
           ELSE Exc("AttributeError", "object has no attribute 'get'", None)
  ELSE IF ~In("name", col)
    THEN Exc("ValueError", "Column at index {i} is missing required 'name' field", PyInt(i))
  ELSE NoExc

(* The checks on one element of `columns`; i is the zero-based index. *)
validate_column(i, col) ==
  IF InRaises(col)
    THEN Exc("TypeError", "argument of type 'NoneType' is not iterable", None)
  ELSE IF ~In("name", col)
    THEN Exc("ValueError", "Column at index {i} is missing required 'name' field", PyInt(i))
  ELSE IF ~In("column_type", col)
    THEN IF col.t = "dict"
           THEN Exc("ValueError", "Column '{name}' is missing required 'column_type' field",
                    Get(col, "name", IndexDesc(i)))
           ELSE Exc("AttributeError", "object has no attribute 'get'", None)
  ELSE NoExc

(* for i, col in enumerate(self.columns): the first failure is raised. *)
RECURSIVE validate_from(_, _)
validate_from(cols, i) ==
  IF i >= Len(cols)
    THEN NoExc
    ELSE LET e == validate_column(i, cols[i + 1])
         IN  IF Raised(e) THEN e ELSE validate_from(cols, i + 1)

validate_columns(columns, source_desc) ==
  IF ~Truthy(columns)
    THEN Exc("ValueError", "No columns defined", source_desc)
    ELSE validate_from(columns.s, 0)

(* load_yaml without the guard on the loaded flag. *)
load_yaml_no_guard(obj, cnt) ==
  LET v == validate_source(obj) IN
  IF Raised(v) THEN [self |-> obj, raised |-> v, io |-> cnt] ELSE
  LET r == read_data(obj, cnt) IN
  IF Raised(r.raised) THEN [self |-> obj, raised |-> r.raised, io |-> r.io] ELSE
  IF r.data.t = "None"
    THEN [self |-> obj, raised |-> Exc("ValueError", "YAML is empty", r.source_desc),
          io |-> r.io] ELSE
  LET x == extract_columns(obj, r.data, r.source_desc) IN
  IF Raised(x.raised) THEN [self |-> x.self, raised |-> x.raised, io |-> r.io] ELSE
  LET c == validate_columns(x.self.columns, r.source_desc) IN
  IF Raised(c) THEN [self |-> x.self, raised |-> c, io |-> r.io] ELSE
  [self |-> [x.self EXCEPT !._yaml_loaded = TRUE], raised |-> NoExc, io |-> r.io]

(* load_yaml that sets the loaded flag once the columns are extracted,    *)
(* before they are validated.                                              *)
load_yaml_flag_early(obj, cnt) ==
  IF obj._yaml_loaded
    THEN [self |-> obj, raised |-> NoExc, io |-> cnt]
    ELSE
      LET v == validate_source(obj) IN
      IF Raised(v) THEN [self |-> obj, raised |-> v, io |-> cnt] ELSE
      LET r == read_data(obj, cnt) IN
      IF Raised(r.raised) THEN [self |-> obj, raised |-> r.raised, io |-> r.io] ELSE
      IF r.data.t = "None"
        THEN [self |-> obj, raised |-> Exc("ValueError", "YAML is empty", r.source_desc),
              io |-> r.io] ELSE
      LET x0 == extract_columns(obj, r.data, r.source_desc)
          x == [x0 EXCEPT !.self._yaml_loaded = TRUE] IN
      IF Raised(x.raised) THEN [self |-> x.self, raised |-> x.raised, io |-> r.io] ELSE
      LET c == validate_columns(x.self.columns, r.source_desc) IN
      IF Raised(c) THEN [self |-> x.self, raised |-> c, io |-> r.io] ELSE
      [self |-> x.self, raised |-> NoExc, io |-> r.io]

load_yaml(obj, cnt) ==
  IF obj._yaml_loaded
    THEN [self |-> obj, raised |-> NoExc, io |-> cnt]
    ELSE
      LET v == validate_source(obj) IN
      IF Raised(v) THEN [self |-> obj, raised |-> v, io |-> cnt] ELSE
      LET r == read_data(obj, cnt) IN
      IF Raised(r.raised) THEN [self |-> obj, raised |-> r.raised, io |-> r.io] ELSE
      IF r.data.t = "None"
        THEN [self |-> obj, raised |-> Exc("ValueError", "YAML is empty", r.source_desc),
              io |-> r.io] ELSE
      LET x == extract_columns(obj, r.data, r.source_desc) IN
      IF Raised(x.raised) THEN [self |-> x.self, raised |-> x.raised, io |-> r.io] ELSE
      LET c == validate_columns(x.self.columns, r.source_desc) IN
      IF Raised(c) THEN [self |-> x.self, raised |-> c, io |-> r.io] ELSE
      [self |-> [x.self EXCEPT !._yaml_loaded = TRUE], raised |-> NoExc, io |-> r.io]

-----------------------------------------------------------------------------
(* The accessors and the forwarding operation. *)

(* col[key]: a dict yields the value or KeyError; str, list and None do    *)
(* not take a string subscript.                                            *)
Subscript(col, key) ==
  IF col.t = "dict"
    THEN IF key \in DOMAIN col.m
           THEN [raised |-> NoExc, val |-> col.m[key]]
           ELSE [raised |-> Exc("KeyError", "", Str(KeyChars[key])), val |-> None]
    ELSE [raised |-> Exc("TypeError", "indices must be integers, or not subscriptable", None),
          val |-> None]

(* [col["name"] for col in self.columns] *)
RECURSIVE names_from(_, _, _)
names_from(cols, i, acc) ==
  IF i > Len(cols)
    THEN [raised |-> NoExc, val |-> List(acc)]
    ELSE LET x == Subscript(cols[i], "name")
         IN  IF Raised(x.raised)
               THEN [raised |-> x.raised, val |-> None]
               ELSE names_from(cols, i + 1, Append(acc, x.val))

(* get_column_names that keeps the first occurrence of each name only. *)
RECURSIVE names_once_from(_, _, _)
names_once_from(cols, i, acc) ==
  IF i > Len(cols)
    THEN [raised |-> NoExc, val |-> List(acc)]
    ELSE LET x == Subscript(cols[i], "name")
         IN  IF Raised(x.raised)
               THEN [raised |-> x.raised, val |-> None]
             ELSE IF \E j \in DOMAIN acc : acc[j] = x.val
               THEN names_once_from(cols, i + 1, acc)
             ELSE names_once_from(cols, i + 1, Append(acc, x.val))

get_column_names_once(obj) == names_once_from(obj.columns.s, 1, <<>>)

get_column_names(obj) == names_from(obj.columns.s, 1, <<>>)

(* len(v) *)
PyLen(v) ==
  CASE v.t = "list" -> [raised |-> NoExc, val |-> PyInt(Len(v.s))]
    [] v.t = "str" -> [raised |-> NoExc, val |-> PyInt(Len(v.c))]
    [] v.t = "dict" -> [raised |-> NoExc, val |-> PyInt(Cardinality(DOMAIN v.m))]
    [] OTHER -> [raised |-> Exc("TypeError", "object of type 'NoneType' has no len()", None),
                 val |-> None]

has_tool_configs(obj) ==
  LET n == PyLen(obj.tool_configs)
  IN  IF Raised(n.raised)
        THEN [raised |-> n.raised, val |-> None]
        ELSE [raised |-> NoExc, val |-> PyBool(n.val.n > 0)]

len(obj) == PyLen(obj.columns)

(* pop_required without the copy: the keys are popped from the element of *)
(* self.columns itself.                                                    *)
pop_required_no_copy(column_def) ==
  LET fail(e) == [raised |-> e, name |-> None, column_type |-> None,
                  kwargs |-> None, column_def |-> column_def]
      popped == Dict([k \in DOMAIN column_def.m \ {"name", "column_type"} |->
                        column_def.m[k]])
  IN  IF column_def.t \in {"str", "None"}
        THEN fail(Exc("AttributeError", "object has no attribute 'pop'", None))
      ELSE IF column_def.t = "list"
        THEN fail(Exc("TypeError", "'str' object cannot be interpreted as an integer", None))
      ELSE IF "name" \notin DOMAIN column_def.m
        THEN fail(Exc("KeyError", "", Str(KeyChars.name)))
      ELSE IF "column_type" \notin DOMAIN column_def.m
        THEN fail(Exc("KeyError", "", Str(KeyChars.column_type)))
      ELSE [raised |-> NoExc,
            name |-> column_def.m.name,
            column_type |-> column_def.m.column_type,
            kwargs |-> popped,
            column_def |-> popped]

(* kwargs = column_def.copy(); name = kwargs.pop("name");                  *)
(* column_type = kwargs.pop("column_type"). column_def is the element of   *)
(* self.columns as these statements leave it.                              *)
pop_required(column_def) ==
  LET fail(e) == [raised |-> e, name |-> None, column_type |-> None,
                  kwargs |-> None, column_def |-> column_def]
  IN  IF column_def.t \in {"str", "None"}
        THEN fail(Exc("AttributeError", "object has no attribute 'copy'", None))
      ELSE IF column_def.t = "list"
        THEN fail(Exc("TypeError", "'str' object cannot be interpreted as an integer", None))
      ELSE IF "name" \notin DOMAIN column_def.m
        THEN fail(Exc("KeyError", "", Str(KeyChars.name)))
      ELSE IF "column_type" \notin DOMAIN column_def.m
        THEN fail(Exc("KeyError", "", Str(KeyChars.column_type)))
      ELSE [raised |-> NoExc,
            name |-> column_def.m.name,
            column_type |-> column_def.m.column_type,
            kwargs |-> Dict([k \in DOMAIN column_def.m \ {"name", "column_type"} |->
                               column_def.m[k]]),
            column_def |-> column_def]

(* config_builder.add_column(name=name, column_type=column_type, **kwargs) *)
BuilderCall(p) == [name |-> p.name, column_type |-> p.column_type, kwargs |-> p.kwargs]

(* The loop of add_columns_to_builder from element i on. `received` are    *)
(* the calls the builder has got, `fails` the number of the call of this   *)
(* invocation that the builder rejects (0: none).                          *)
RECURSIVE add_from(_, _, _, _)
add_from(cols, i, received, fails) ==
  IF i > Len(cols)
    THEN [raised |-> NoExc, calls |-> received, columns |-> cols]
    ELSE LET p == pop_required(cols[i])
             after == [cols EXCEPT ![i] = p.column_def]
         IN  IF Raised(p.raised)
               THEN [raised |-> p.raised, calls |-> received, columns |-> after]
             ELSE IF i = fails
               THEN [raised |-> Exc("ValueError", "Failed to add column '{name}'", p.name),
                     calls |-> Append(received, BuilderCall(p)), columns |-> after]
             ELSE add_from(after, i + 1, Append(received, BuilderCall(p)), fails)

(* add_columns_to_builder that goes on with the remaining records after a *)
(* rejection and raises the error at the end.                              *)
add_columns_to_builder_no_stop(obj, received, fails) ==
  LET r == add_from(obj.columns.s, 1, received, fails)
      all == add_from(obj.columns.s, 1, received, 0)
  IN  [raised |-> r.raised,
       calls |-> IF r.raised.type = "ValueError" THEN all.calls ELSE r.calls,
       self |-> [obj EXCEPT !.columns = List(r.columns)]]

add_columns_to_builder(obj, received, fails) ==
  LET r == add_from(obj.columns.s, 1, received, fails)
  IN  [raised |-> r.raised, calls |-> r.calls,
       self |-> [obj EXCEPT !.columns = List(r.columns)]]

-----------------------------------------------------------------------------
(* The state machine. *)

NoRet == [op |-> "none", val |-> None]

Fields(file, yaml_content, tool_configs, columns) ==
  [file |-> file, yaml_content |-> yaml_content, tool_configs |-> tool_configs,
   columns |-> columns, _yaml_loaded |-> FALSE]

(* The two list fields as the caller may pass them: left at their default *)
(* (an empty list), or both given.                                         *)
FieldKwargs ==
  {[tool_configs |-> List(<<>>), columns |-> List(<<>>)],
   [tool_configs |-> List(<<ToolConfig1>>),
    columns |-> List(<<Dict([name |-> Str(<<"k">>)])>>)]}

Init ==
  /\ pc = "new"
  /\ self = Fields(None, None, List(<<>>), List(<<>>))
  /\ args = Fields(None, None, List(<<>>), List(<<>>))
  /\ raised = NoExc
  /\ ret = NoRet
  /\ calls = <<>>
  /\ io = [exists |-> 0, opened |-> 0, parsed |-> 0]
  /\ regs = 0

(* DeclarativeColumnsConfig(file=..., yaml_content=..., tool_configs=...,   *)
(* columns=...): pydantic sets the fields, then runs load_yaml; an          *)
(* exception leaves the caller without an instance. (pydantic reports a    *)
(* ValueError raised by the validator as its ValidationError, which is a   *)
(* ValueError; other exceptions pass through unchanged.)                   *)
Construct ==
  /\ pc = "new"
  /\ \E file \in {None} \cup {Path(p) : p \in Paths},
        yaml_content \in {None} \cup Texts,
        kw \in FieldKwargs :
        LET obj == Fields(file, yaml_content, kw.tool_configs, kw.columns)
            r == load_yaml(obj, io)
        IN  /\ args' = obj
            /\ self' = r.self
            /\ raised' = r.raised
            /\ io' = r.io
            /\ pc' = IF Raised(r.raised) THEN "failed" ELSE "constructed"
  /\ UNCHANGED <<ret, calls, regs>>

(* inst.load_yaml() called again on the instance. *)
LoadYaml ==
  /\ pc = "constructed"
  /\ LET r == load_yaml(self, io)
     IN  /\ self' = r.self
         /\ raised' = r.raised
         /\ io' = r.io
         /\ ret' = [op |-> "load_yaml", val |-> None]
  /\ UNCHANGED <<pc, args, calls, regs>>

(* inst.file = v or inst.yaml_content = v: the model is not frozen and     *)
(* does not validate assignments.                                          *)
SetField ==
  /\ pc = "constructed"
  /\ \/ self' = [self EXCEPT !.file = Path("missing.yaml")]
     \/ self' = [self EXCEPT !.yaml_content = Malformed]
  /\ raised' = NoExc
  /\ ret' = [op |-> "setattr", val |-> None]
  /\ UNCHANGED <<pc, args, calls, io, regs>>

GetColumnNames ==
  /\ pc = "constructed"
  /\ LET r == get_column_names(self)
     IN  /\ raised' = r.raised
         /\ ret' = [op |-> "get_column_names", val |-> r.val]
  /\ UNCHANGED <<pc, self, args, calls, io, regs>>

HasToolConfigs ==
  /\ pc = "constructed"
  /\ LET r == has_tool_configs(self)
     IN  /\ raised' = r.raised
         /\ ret' = [op |-> "has_tool_configs", val |-> r.val]
  /\ UNCHANGED <<pc, self, args, calls, io, regs>>

Len_ ==
  /\ pc = "constructed"
  /\ LET r == len(self)
     IN  /\ raised' = r.raised
         /\ ret' = [op |-> "__len__", val |-> r.val]
  /\ UNCHANGED <<pc, self, args, calls, io, regs>>

(* inst.add_columns_to_builder(builder) against a builder that rejects the *)
(* call numbered `fails`; ret keeps that number and what the builder and   *)
(* the instance held before the call.                                      *)
AddColumnsToBuilder ==
  /\ pc = "constructed"
  /\ regs < MaxRegs
  /\ \E fails \in 0..Len(self.columns.s) :
       LET r == add_columns_to_builder(self, calls, fails)
       IN  /\ self' = r.self
           /\ calls' = r.calls
           /\ raised' = r.raised
           /\ ret' = [op |-> "add_columns_to_builder",
                      val |-> [fails |-> fails, received |-> calls,
                               columns |-> self.columns]]
  /\ regs' = regs + 1
  /\ UNCHANGED <<pc, args, io>>

Next ==
  \/ Construct
  \/ LoadYaml
  \/ SetField
  \/ GetColumnNames
  \/ HasToolConfigs
  \/ Len_
  \/ AddColumnsToBuilder

Spec == Init /\ [][Next]_vars

-----------------------------------------------------------------------------
(* What the properties below say about the source that was given. *)

ExactlyOneSource(a) == (a.file.t = "None") # (a.yaml_content.t = "None")

SourceText(a) == IF a.file.t # "None" THEN FileText(a.file.p) ELSE a.yaml_content

(* The source can be read and is well-formed YAML. *)
Readable(a) ==
  /\ ExactlyOneSource(a)
  /\ a.file.t # "None" => Exists(a.file.p) /\ ~IsDir(a.file.p)
  /\ SourceText(a).well_formed

SourceDoc(a) == SourceText(a).doc

(* The source holds a `columns` list, under the key or as the document. *)
HasColumnsList(a) ==
  /\ Readable(a)
  /\ \/ SourceDoc(a).t = "list"
     \/ /\ SourceDoc(a).t = "dict"
        /\ "columns" \in DOMAIN SourceDoc(a).m
        /\ SourceDoc(a).m.columns.t = "list"

SourceColumns(a) ==
  IF SourceDoc(a).t = "dict" THEN SourceDoc(a).m.columns.s ELSE SourceDoc(a).s

HasToolConfigsKey(a) ==
  SourceDoc(a).t = "dict" /\ "tool_configs" \in DOMAIN SourceDoc(a).m

IsRecord(col) == col.t = "dict"

ValidRecord(col) == IsRecord(col) /\ {"name", "column_type"} \subseteq DOMAIN col.m

AllValidRecords(cols) == \A i \in DOMAIN cols : ValidRecord(cols[i])

(* The builder call a column record stands for: its name, its column_type  *)
(* and its other keys as named parameters.                                 *)
ExpectedCall(rec) ==
  [name |-> rec.m.name,
   column_type |-> rec.m.column_type,
   kwargs |-> Dict([k \in DOMAIN rec.m \ {"name", "column_type"} |-> rec.m[k]])]

ExpectedCalls(cols, n) == [i \in 1..n |-> ExpectedCall(cols[i])]

NoIO == [exists |-> 0, opened |-> 0, parsed |-> 0]

-----------------------------------------------------------------------------
(* C1: constructing with both `file` and `yaml_content` set, or with       *)
(* neither, raises a ValueError that names the exclusivity rule, before    *)
(* any file is looked up or opened and before any text is parsed, and      *)
(* yields no instance.                                                     *)
C1_SourceExclusivity ==
  (pc # "new" /\ ~ExactlyOneSource(args)) =>
    /\ pc = "failed"
    /\ raised.type = "ValueError"
    /\ raised.msg = IF args.file.t = "None"
                      THEN "Either 'file' or 'yaml_content' must be provided"
                      ELSE "Cannot specify both 'file' and 'yaml_content'"
    /\ io = NoIO
    /\ ~self._yaml_loaded

(* Both sources given, each of which would load on its own. *)
C1_Witness ==
  /\ pc = "failed"
  /\ args.file.t # "None"
  /\ args.file.p = "cols.yaml"
  /\ args.yaml_content.t # "None"
  /\ args.yaml_content.well_formed
  /\ args.yaml_content.doc.t = "list"
  /\ AllValidRecords(args.yaml_content.doc.s)
  /\ Len(args.yaml_content.doc.s) > 0

(* C2: when the builder rejects the k-th call and the records 1..k are     *)
(* mappings, the builder has received the calls for records 1..k in order  *)
(* after what it held before, none for a later record, and the error is    *)
(* the ValueError "Failed to add column" naming the k-th record's name.    *)
C2_FailFast ==
  (/\ ret.op = "add_columns_to_builder"
   /\ ret.val.fails > 0
   /\ \A i \in 1..ret.val.fails : IsRecord(ret.val.columns.s[i])) =>
    /\ calls = ret.val.received \o ExpectedCalls(ret.val.columns.s, ret.val.fails)
    /\ raised.type = "ValueError"
    /\ raised.msg = "Failed to add column '{name}'"
    /\ raised.arg = ret.val.columns.s[ret.val.fails].m.name

(* A rejection before the last record, by a builder that already holds    *)
(* calls of an earlier registration.                                       *)
C2_Witness ==
  /\ ret.op = "add_columns_to_builder"
  /\ ret.val.fails > 0
  /\ ret.val.fails < Len(ret.val.columns.s)
  /\ AllValidRecords(ret.val.columns.s)
  /\ Len(ret.val.received) > 0
  /\ Len(calls) = Len(ret.val.received) + ret.val.fails

(* C3: when the builder accepts every call and the elements are column     *)
(* records, it receives one call per record in order, each with the        *)
(* record's name, column_type and other keys, no error is raised, and the  *)
(* instance's columns are as they were before the call.                    *)
C3_ForwardAll ==
  (/\ ret.op = "add_columns_to_builder"
   /\ ret.val.fails = 0
   /\ AllValidRecords(ret.val.columns.s)) =>
    /\ ~Raised(raised)
    /\ calls = ret.val.received
                 \o ExpectedCalls(ret.val.columns.s, Len(ret.val.columns.s))
    /\ self.columns = ret.val.columns

(* Two records forwarded, one of them with a key besides the required two. *)
C3_Witness ==
  /\ ret.op = "add_columns_to_builder"
  /\ ret.val.fails = 0
  /\ AllValidRecords(ret.val.columns.s)
  /\ Len(ret.val.columns.s) = 2
  /\ Len(calls) >= 2
  /\ \E i \in DOMAIN calls : DOMAIN calls[i].kwargs.m # {}

(* C4: for a source whose `columns` list holds N column records, a         *)
(* constructed instance has __len__() = N and get_column_names() equal to  *)
(* the records' names in the order of the source.                          *)
C4_CountAndNames ==
  (/\ pc = "constructed"
   /\ HasColumnsList(args)
   /\ AllValidRecords(SourceColumns(args))) =>
    /\ ret.op = "__len__" =>
         ~Raised(raised) /\ ret.val = PyInt(Len(SourceColumns(args)))
    /\ ret.op = "get_column_names" =>
         /\ ~Raised(raised)
         /\ ret.val = List([i \in 1..Len(SourceColumns(args)) |->
                              SourceColumns(args)[i].m.name])

(* The names of two records with different names have been returned. *)
C4_Witness ==
  /\ pc = "constructed"
  /\ AllValidRecords(self.columns.s)
  /\ ret.op = "get_column_names"
  /\ ret.val.t = "list"
  /\ Len(ret.val.s) = 2
  /\ ret.val.s[1] # ret.val.s[2]

(* The least zero-based index of an element that is not a record with both *)
(* required keys.                                                          *)
FirstInvalid(cols) ==
  CHOOSE i \in 0..(Len(cols) - 1) :
    /\ ~ValidRecord(cols[i + 1])
    /\ \A j \in 0..(i - 1) : ValidRecord(cols[j + 1])

(* C5: when the first element of the source's `columns` that is not a      *)
(* valid record is a mapping, construction fails with the error for that   *)
(* element: without `name`, "Column at index i is missing 'name'" with its *)
(* zero-based index; with `name` but without `column_type`, "Column        *)
(* '<name>' is missing 'column_type'" with that name.                      *)
C5_FirstFailingRecord ==
  (/\ pc # "new"
   /\ HasColumnsList(args)
   /\ ~AllValidRecords(SourceColumns(args))
   /\ IsRecord(SourceColumns(args)[FirstInvalid(SourceColumns(args)) + 1])) =>
    LET i == FirstInvalid(SourceColumns(args))
        col == SourceColumns(args)[i + 1]
    IN  /\ pc = "failed"
        /\ raised.type = "ValueError"
        /\ IF "name" \notin DOMAIN col.m
             THEN /\ raised.msg = "Column at index {i} is missing required 'name' field"
                  /\ raised.arg = PyInt(i)
             ELSE /\ raised.msg = "Column '{name}' is missing required 'column_type' field"
                  /\ raised.arg = col.m.name

(* The second record fails, after a valid first one, and is followed by    *)
(* nothing; it has a name and no column_type.                              *)
C5_Witness ==
  /\ pc = "failed"
  /\ HasColumnsList(args)
  /\ Len(SourceColumns(args)) = 2
  /\ ValidRecord(SourceColumns(args)[1])
  /\ IsRecord(SourceColumns(args)[2])
  /\ DOMAIN SourceColumns(args)[2].m = {"name"}
  /\ raised.msg = "Column '{name}' is missing required 'column_type' field"

(* The failures of the load step: source exclusivity, file not found, YAML *)
(* syntax error, empty source, wrong top-level structure, empty `columns`, *)
(* a record without a required key.                                        *)
SourceFails(a) ==
  \/ ~ExactlyOneSource(a)
  \/ a.file.t # "None" /\ ~Exists(a.file.p)
  \/ /\ ExactlyOneSource(a)
     /\ a.file.t # "None" => Exists(a.file.p) /\ ~IsDir(a.file.p)
     /\ ~SourceText(a).well_formed
  \/ /\ Readable(a)
     /\ \/ SourceDoc(a).t = "None"
        \/ SourceDoc(a).t \notin {"list", "dict"}
        \/ SourceDoc(a).t = "dict" /\ "columns" \notin DOMAIN SourceDoc(a).m
        \/ SourceDoc(a).t = "dict" /\ ~Truthy(SourceDoc(a).m.columns)
        \/ SourceDoc(a).t = "list" /\ ~Truthy(SourceDoc(a))
  \/ /\ HasColumnsList(a)
     /\ \E i \in DOMAIN SourceColumns(a) :
          IsRecord(SourceColumns(a)[i]) /\ ~ValidRecord(SourceColumns(a)[i])

SyntaxErrorInline(a) ==
  a.file.t = "None" /\ a.yaml_content.t # "None" /\ ~a.yaml_content.well_formed

(* C6: every failure of the load step ends the construction with an       *)
(* exception and without an instance: the loaded flag is not set and no    *)
(* operation ever runs on the object; an instance that exists is loaded.   *)
(* A syntactically invalid inline text raises the ValueError "Failed to    *)
(* parse inline YAML" and the load has assigned neither `columns` nor      *)
(* `tool_configs`.                                                         *)
C6_AllOrNothing ==
  /\ (pc # "new" /\ SourceFails(args)) => pc = "failed"
  /\ pc = "failed" =>
       /\ Raised(raised)
       /\ ~self._yaml_loaded
       /\ ret.op = "none"
       /\ calls = <<>>
  /\ pc = "constructed" => self._yaml_loaded /\ ~SourceFails(args)
  /\ (pc # "new" /\ SyntaxErrorInline(args)) =>
       /\ raised.type = "ValueError"
       /\ raised.msg = "Failed to parse inline YAML"
       /\ self.columns = args.columns
       /\ self.tool_configs = args.tool_configs

(* A failure in the validation loop, after `columns` has been assigned. *)
C6_Witness ==
  /\ pc = "failed"
  /\ HasColumnsList(args)
  /\ Len(SourceColumns(args)) = 2
  /\ ValidRecord(SourceColumns(args)[1])
  /\ raised.msg = "Column at index {i} is missing required 'name' field"
  /\ Len(self.columns.s) = 2

(* C7: the loaded flag is set once, by the construction, and never reset;  *)
(* load_yaml on a constructed instance raises nothing, looks up, opens and *)
(* parses nothing and leaves every field as it was, whatever `file` and    *)
(* `yaml_content` have been set to since.                                  *)
C7_LoadOnce ==
  [][/\ self._yaml_loaded => self'._yaml_loaded
     /\ (~self._yaml_loaded /\ self'._yaml_loaded) => (pc = "new" /\ pc' = "constructed")
     /\ (pc = "constructed" /\ ret'.op = "load_yaml") =>
          /\ ~Raised(raised')
          /\ io' = io
          /\ self' = self]_vars

(* An instance built from a file, whose yaml_content was then set to a     *)
(* malformed text, and on which load_yaml was called after that.           *)
C7_Witness ==
  /\ pc = "constructed"
  /\ ret.op = "load_yaml"
  /\ args.file.t # "None"
  /\ self.yaml_content.t # "None"
  /\ ~self.yaml_content.well_formed
  /\ self._yaml_loaded

(* C8: a constructed instance has a non-empty `columns`, every element of  *)
(* which is a mapping with the keys `name` and `column_type`.              *)
C8_ColumnsValidated ==
  pc = "constructed" =>
    /\ Len(self.columns.s) > 0
    /\ AllValidRecords(self.columns.s)

(* C9: on a constructed instance has_tool_configs() returns true iff       *)
(* `tool_configs` is non-empty; it returns false when the source has no    *)
(* `tool_configs` key (a bare sequence included), and true when the source *)
(* is a mapping with `columns` and a `tool_configs` of at least one entry. *)
(* Stated for the sources whose `columns` are all valid column records.    *)
C9_HasToolConfigs ==
  (/\ pc = "constructed"
   /\ ret.op = "has_tool_configs"
   /\ AllValidRecords(SourceColumns(args))) =>
    /\ ~Raised(raised) => ret.val = PyBool(Truthy(self.tool_configs))
    /\ ~HasToolConfigsKey(args) => (~Raised(raised) /\ ret.val = PyBool(FALSE))
    /\ (/\ HasToolConfigsKey(args)
        /\ "columns" \in DOMAIN SourceDoc(args).m
        /\ Truthy(SourceDoc(args).m.tool_configs)) =>
         (~Raised(raised) /\ ret.val = PyBool(TRUE))

(* C10: get_column_names() on a constructed instance raises nothing and    *)
(* returns a list, whatever the shape of the elements of `columns`.        *)
C10_NamesNeverRaise ==
  (pc = "constructed" /\ ret.op = "get_column_names") =>
    /\ ~Raised(raised)
    /\ ret.val.t = "list"
====
